---- MODULE Spec2Model ----
(***************************************************************************)
(* A model of tfblib's system layer (src/src/system_code.c): framebuffer   *)
(* session acquire/release, the drawing window, the shadow-buffer flush,   *)
(* terminal raw mode and the keypress decoder.                             *)
(*                                                                         *)
(* Every library call is one action.  The calls fall into groups that      *)
(* share no state, and each group is explored by a specification of its    *)
(* own over the same variables:                                            *)
(*   SpecSession  tfb_acquire_fb and tfb_release_fb, with every system     *)
(*                call of the acquire failing in turn                      *)
(*   SpecWin      tfb_acquire_fb, tfb_set_window and tfb_flush_window      *)
(*   SpecKb       tfb_set_kb_raw_mode and tfb_restore_kb_mode              *)
(*   SpecKey      tfb_read_keypress with read_esc_seq, one read() a step   *)
(*   SpecFn       tfb_read_keypress on the function keys' patterns and     *)
(*                tfb_get_fn_key_num                                       *)
(* Spec allows every call in every order.                                  *)
(***************************************************************************)
EXTENDS Integers, Sequences, FiniteSets, TLC

(***************************************************************************)
(* u32 arithmetic.  A u32 is a pair <<hi, lo>> of 16-bit limbs, so that    *)
(* the full 32-bit width is kept and every wrap of the C code happens in   *)
(* the model at 2^32.                                                      *)
(***************************************************************************)
Limb == 256 * 256

U(n) == <<n \div Limb, n % Limb>>

U32_MAX == <<Limb - 1, Limb - 1>>

IsZero(a) == a[1] = 0 /\ a[2] = 0

\* the carry out of bit 31 of a + b: 1 when the true sum does not fit a u32
Carry(a, b) == (a[1] + b[1] + ((a[2] + b[2]) \div Limb)) \div Limb

\* a + b as the C code computes it on u32 operands (mod 2^32)
Add32(a, b) == <<(a[1] + b[1] + ((a[2] + b[2]) \div Limb)) % Limb, (a[2] + b[2]) % Limb>>

Gt32(a, b) == a[1] > b[1] \/ (a[1] = b[1] /\ a[2] > b[2])

Le32(a, b) == ~Gt32(a, b)

\* a - b as the machine computes it
Sub32(a, b) ==
    <<(a[1] - b[1] - (IF a[2] < b[2] THEN 1 ELSE 0) + 2 * Limb) % Limb,
      (a[2] - b[2] + Limb) % Limb>>

\* a << 2 on a u32 (bits shifted out of bit 31 are lost)
Shl2(a) == Add32(Add32(a, a), Add32(a, a))

\* a >> 2 on a u32
Shr2(a) == <<a[1] \div 4, (a[2] \div 4) + (a[1] % 4) * (Limb \div 4)>>

\* a * b on u32 operands (mod 2^32), by 8-bit partial products of a's low limb
Mul32(a, b) ==
    LET a0 == a[2] % 256
        a1 == a[2] \div 256
        p0 == a0 * b[2]
        p1 == a1 * b[2]
        lo == (p0 % Limb) + (p1 % 256) * 256
        hi == (p0 \div Limb) + (p1 \div 256) + (lo \div Limb)
               + ((a[1] * (b[2] % 256)) % Limb)
               + (((a[1] % 256) * (b[2] \div 256)) % 256) * 256
               + ((a0 * b[1]) % Limb)
               + (((a1 * (b[1] % 256)) % 256) * 256)
    IN  <<hi % Limb, lo % Limb>>

\* the value of a u32 below 2^16 as an integer
Val(a) == a[2]


(***************************************************************************)
(* Bounds of the model and the inputs it draws.                            *)
(***************************************************************************)
\* file descriptors 3..MaxFd can be handed out by open(); 0..2 are stdio
MaxFd == 4
\* addresses mmap() can return
MaxMaps == 1
\* addresses malloc() can return
MaxAllocs == 1

Fds == 3..MaxFd

\* u32 arguments tried for x, y, w, h: small values and values that wrap
U32Samples == {U(0), U(1), U32_MAX}

\* acquisition flags: the set of the TFB_FL_ bits that are set
AllFlags == {"TFB_FL_NO_TTY_KD_GRAPHICS", "TFB_FL_USE_SHADOW_BUFFER"}

\* what the framebuffer driver answers to FBIOGET_FSCREENINFO and
\* FBIOGET_VSCREENINFO: a visible xres * yres area at (xoffset, yoffset) of a
\* virtual screen, 4 bytes per pixel, line_length a multiple of 4 that holds
\* at least xoffset + xres pixels
Geom(xres, yres, xoffset, yoffset, line_length) ==
    [xres |-> U(xres), yres |-> U(yres), xoffset |-> U(xoffset),
     yoffset |-> U(yoffset), line_length |-> U(line_length)]

Geoms ==
    { Geom(2, 1, 0, 0, 8), Geom(1, 2, 1, 0, 8), Geom(1, 1, 0, 1, 4) }

\* bits_per_pixel and the msb_right of the red, green and blue bitfields
Formats ==
    { [bits_per_pixel |-> 32, red |-> 0, green |-> 0, blue |-> 0],
      [bits_per_pixel |-> 16, red |-> 0, green |-> 0, blue |-> 0],
      [bits_per_pixel |-> 32, red |-> 1, green |-> 0, blue |-> 0],
      [bits_per_pixel |-> 32, red |-> 0, green |-> 1, blue |-> 0],
      [bits_per_pixel |-> 32, red |-> 0, green |-> 0, blue |-> 1] }

Devices == { [geom |-> g, fmt |-> f] : g \in Geoms, f \in Formats }

\* struct fb_var_screeninfo as filled in by the driver
VarInfo(d) ==
    [xres |-> d.geom.xres, yres |-> d.geom.yres,
     xoffset |-> d.geom.xoffset, yoffset |-> d.geom.yoffset,
     bits_per_pixel |-> d.fmt.bits_per_pixel,
     red_msb_right |-> d.fmt.red, green_msb_right |-> d.fmt.green,
     blue_msb_right |-> d.fmt.blue]

\* a zero-initialised struct fb_var_screeninfo
ZeroVarInfo ==
    [xres |-> U(0), yres |-> U(0), xoffset |-> U(0), yoffset |-> U(0),
     bits_per_pixel |-> 0, red_msb_right |-> 0, green_msb_right |-> 0,
     blue_msb_right |-> 0]

(***************************************************************************)
(* Pointers.  A pointer is NULL, MAP_FAILED, an address returned by mmap   *)
(* or an address returned by malloc; an address stays the same value after *)
(* the region behind it is gone.                                           *)
(***************************************************************************)
NULL == [kind |-> "null", id |-> 0]

MAP_FAILED == [kind |-> "map_failed", id |-> 0]

MapPtr(k) == [kind |-> "map", id |-> k]

HeapPtr(k) == [kind |-> "heap", id |-> k]

\* the number of 32-bit words of a region of n bytes (n below 2^16)
Words(n) == Val(n) \div 4

\* the device memory before the program touches it: word i holds i
DeviceContent(nwords) == [i \in 1..nwords |-> i]

\* what malloc returns is uninitialised: word i holds some g + i
GarbageSeeds == {100}

HeapContent(nwords, g) == [i \in 1..nwords |-> g + i]

FreeHeap == [live |-> FALSE, data |-> <<>>]


(***************************************************************************)
(* State.                                                                  *)
(***************************************************************************)
VARIABLES
    \* the program's globals (system_code.c and the fb globals it sets)
    fbi,                \* struct fb_var_screeninfo __fbi
    fb_fixinfo,         \* line_length of the static fb_fixinfo of tfb_acquire_fb
    fbfd, ttyfd,        \* -1 or a descriptor number
    fb_pitch, fb_size, fb_pitch_div4,
    fb_real_buffer, fb_buffer,
    fb_screen_w, fb_screen_h,
    fb_off_x, fb_off_y, fb_win_w, fb_win_h, fb_win_end_x, fb_win_end_y,
    orig_termios, tfb_kb_raw_mode,
    \* the environment
    dev,                \* the framebuffer device (fixed for a run)
    fds,                \* descriptor table: "free", "fb" or "tty" per number
    kd_mode,            \* console mode: "KD_TEXT" or "KD_GRAPHICS"
    maps,               \* per mmap address: is a mapping of the device live there
    vram,               \* the device memory the mappings show, in 32-bit words
    heap,               \* per malloc address: the live block and its words
    fault,              \* "none", or "crashed" once undefined behaviour has
                        \* ended the process
    term_attr,          \* the terminal's attributes (struct termios of fd 0)
    attr_at_enter,      \* history: term_attr when raw mode was last entered
    char_signed,        \* whether plain char is signed in this build
    \* the keypress decoder: pc is where the call stands ("idle" between
    \* calls, else the read() it is blocked in), esc_buf and esc_len are buf
    \* and len of read_esc_seq, reads the results of the call's read()s so far
    \* (a byte, or -1 for a read that returned <= 0), keyret the value the
    \* call returned (once pc is "idle" again), as the 8 bytes of the
    \* uint64_t, lowest first
    pc, esc_buf, esc_len, reads, keyret,
    \* the last library call: its name, arguments and result
    last

fbVars ==
    <<fbi, fb_fixinfo, fbfd, ttyfd, fb_pitch, fb_size, fb_pitch_div4,
      fb_real_buffer, fb_buffer, fb_screen_w, fb_screen_h,
      fb_off_x, fb_off_y, fb_win_w, fb_win_h, fb_win_end_x, fb_win_end_y,
      fds, kd_mode, maps, vram, heap, fault>>

kbVars == <<orig_termios, tfb_kb_raw_mode, term_attr, attr_at_enter>>

keyVars == <<pc, esc_buf, esc_len, reads, keyret>>

vars == <<fbVars, kbVars, keyVars, dev, char_signed, last>>

\* the session state as one value, so that tfb_acquire_fb can run
\* tfb_set_window and tfb_release_fb on the state it has built so far;
\* sys is the list of the releasing system calls made by the current call,
\* undef whether the call ran into undefined behaviour
St ==
    [fbi |-> fbi, fb_fixinfo |-> fb_fixinfo, fbfd |-> fbfd, ttyfd |-> ttyfd,
     fb_pitch |-> fb_pitch, fb_size |-> fb_size,
     fb_pitch_div4 |-> fb_pitch_div4,
     fb_real_buffer |-> fb_real_buffer, fb_buffer |-> fb_buffer,
     fb_screen_w |-> fb_screen_w, fb_screen_h |-> fb_screen_h,
     fb_off_x |-> fb_off_x, fb_off_y |-> fb_off_y,
     fb_win_w |-> fb_win_w, fb_win_h |-> fb_win_h,
     fb_win_end_x |-> fb_win_end_x, fb_win_end_y |-> fb_win_end_y,
     fds |-> fds, kd_mode |-> kd_mode, maps |-> maps, vram |-> vram,
     heap |-> heap, fault |-> fault, sys |-> <<>>, undef |-> FALSE,
     ret |-> "TFB_SUCCESS"]

Install(S) ==
    /\ fbi' = S.fbi
    /\ fb_fixinfo' = S.fb_fixinfo
    /\ fbfd' = S.fbfd
    /\ ttyfd' = S.ttyfd
    /\ fb_pitch' = S.fb_pitch
    /\ fb_size' = S.fb_size
    /\ fb_pitch_div4' = S.fb_pitch_div4
    /\ fb_real_buffer' = S.fb_real_buffer
    /\ fb_buffer' = S.fb_buffer
    /\ fb_screen_w' = S.fb_screen_w
    /\ fb_screen_h' = S.fb_screen_h
    /\ fb_off_x' = S.fb_off_x
    /\ fb_off_y' = S.fb_off_y
    /\ fb_win_w' = S.fb_win_w
    /\ fb_win_h' = S.fb_win_h
    /\ fb_win_end_x' = S.fb_win_end_x
    /\ fb_win_end_y' = S.fb_win_end_y
    /\ fds' = S.fds
    /\ kd_mode' = S.kd_mode
    /\ maps' = S.maps
    /\ vram' = S.vram
    /\ heap' = S.heap
    /\ fault' = S.fault

\* the record of a call; fields a call does not use keep these values;
\* held is whether the program held anything when the call began, undef
\* whether the call ran into undefined behaviour
NoCall ==
    [op |-> "none", ret |-> "none", args |-> <<>>, flags |-> {},
     sys |-> <<>>, written |-> {}, oob |-> FALSE, held |-> FALSE,
     undef |-> FALSE]

\* how undefined behaviour can end: the process is killed, or it goes on
UbOutcomes == {"crashed", "goes_on"}

Undefined(S, ub) ==
    [S EXCEPT !.undef = TRUE, !.fault = IF ub = "crashed" THEN "crashed" ELSE @]

(***************************************************************************)
(* System calls, as far as the code uses them.                             *)
(***************************************************************************)
FreeFds(S) == {f \in Fds : S.fds[f] = "free"}

\* open() returns the lowest free descriptor
LowestFree(S) == CHOOSE f \in FreeFds(S) : \A g \in FreeFds(S) : f <= g

Log(S, call, how) == [S EXCEPT !.sys = Append(@, <<call, how>>)]

\* close(fd): closes an open descriptor, EBADF otherwise
close(S, fd, name) ==
    IF fd \in Fds /\ S.fds[fd] # "free"
    THEN Log([S EXCEPT !.fds[fd] = "free"], name, "ok")
    ELSE Log(S, name, "ebadf")

\* ioctl(fd, KDSETMODE, KD_TEXT): acts on an open terminal only
kd_text(S, fd) ==
    IF fd \in Fds /\ S.fds[fd] = "tty"
    THEN Log([S EXCEPT !.kd_mode = "KD_TEXT"], "kd_text", "ok")
    ELSE Log(S, "kd_text", "failed")

\* munmap(p, len): removes the mapping at p; EINVAL for MAP_FAILED, and
\* nothing to remove at an address that holds no mapping
munmap(S, p) ==
    IF p.kind = "map" /\ S.maps[p.id]
    THEN Log([S EXCEPT !.maps[p.id] = FALSE], "munmap", "ok")
    ELSE Log(S, "munmap", IF p.kind = "map" THEN "not_mapped" ELSE "einval")

\* free(p): nothing for NULL, frees a live block, and is undefined for any
\* other pointer (a block already freed, an address that malloc never gave)
free(S, p, ub) ==
    IF p = NULL THEN Log(S, "free", "null")
    ELSE IF p.kind = "heap" /\ S.heap[p.id].live
    THEN Log([S EXCEPT !.heap[p.id] = FreeHeap], "free", "ok")
    ELSE Log(Undefined(S, ub), "free", "undefined")


(***************************************************************************)
(* tfb_release_fb.  It tests the globals and never resets them.            *)
(***************************************************************************)
tfb_release_fb(S, ub) ==
    LET S1 == IF S.fb_real_buffer # NULL
              THEN munmap(S, S.fb_real_buffer) ELSE S
        S2 == IF S1.fb_buffer # S1.fb_real_buffer
              THEN free(S1, S1.fb_buffer, ub) ELSE S1
        S3 == IF S2.ttyfd # -1
              THEN close(kd_text(S2, S2.ttyfd), S2.ttyfd, "close_tty") ELSE S2
        S4 == IF S3.fbfd # -1 THEN close(S3, S3.fbfd, "close_fb") ELSE S3
    IN  IF S2.fault = "crashed" THEN S2 ELSE S4

(***************************************************************************)
(* tfb_set_window.  Both sums are u32 sums.                                *)
(***************************************************************************)
\* A faulty variant, which the properties of the window must tell from the
\* code: the test of the height left out
set_window_no_y_test(S, x, y, w, h) ==
    IF Gt32(Add32(x, w), S.fb_screen_w) THEN [S EXCEPT !.ret = "TFB_INVALID_WINDOW"]
    ELSE [S EXCEPT !.fb_off_x = Add32(S.fbi.xoffset, x),
                   !.fb_off_y = Add32(S.fbi.yoffset, y),
                   !.fb_win_w = w,
                   !.fb_win_h = h,
                   !.fb_win_end_x = Add32(Add32(S.fbi.xoffset, x), w),
                   !.fb_win_end_y = Add32(Add32(S.fbi.yoffset, y), h),
                   !.ret = "TFB_SUCCESS"]

\* A faulty variant, which the properties of the window must tell from the
\* code: the window stored without the device's offsets
set_window_no_base_offset(S, x, y, w, h) ==
    IF Gt32(Add32(x, w), S.fb_screen_w) THEN [S EXCEPT !.ret = "TFB_INVALID_WINDOW"]
    ELSE IF Gt32(Add32(y, h), S.fb_screen_h) THEN [S EXCEPT !.ret = "TFB_INVALID_WINDOW"]
    ELSE [S EXCEPT !.fb_off_x = x, !.fb_off_y = y, !.fb_win_w = w, !.fb_win_h = h,
                   !.fb_win_end_x = Add32(x, w), !.fb_win_end_y = Add32(y, h),
                   !.ret = "TFB_SUCCESS"]

tfb_set_window(S, x, y, w, h) ==
    IF Gt32(Add32(x, w), S.fb_screen_w) THEN [S EXCEPT !.ret = "TFB_INVALID_WINDOW"]
    ELSE IF Gt32(Add32(y, h), S.fb_screen_h) THEN [S EXCEPT !.ret = "TFB_INVALID_WINDOW"]
    ELSE [S EXCEPT !.fb_off_x = Add32(S.fbi.xoffset, x),
                   !.fb_off_y = Add32(S.fbi.yoffset, y),
                   !.fb_win_w = w,
                   !.fb_win_h = h,
                   !.fb_win_end_x = Add32(Add32(S.fbi.xoffset, x), w),
                   !.fb_win_end_y = Add32(Add32(S.fbi.yoffset, y), h),
                   !.ret = "TFB_SUCCESS"]

\* A faulty variant, which the properties of the session must tell from the
\* code: only the red channel tested
check_fb_assumptions_red_only(S) == S.fbi.red_msb_right = 0

check_fb_assumptions(S) ==
    /\ S.fbi.red_msb_right = 0
    /\ S.fbi.green_msb_right = 0
    /\ S.fbi.blue_msb_right = 0

(***************************************************************************)
(* tfb_acquire_fb.  env says which system call fails, if any, and which    *)
(* addresses mmap and malloc hand out; ub is how undefined behaviour ends  *)
(* should the teardown run into it.  The pixel masks the function derives  *)
(* at the end are read by the drawing code only and are left out.          *)
(***************************************************************************)
AcquireFails ==
    {"none", "open_fb", "fscreeninfo", "vscreeninfo", "open_tty", "kdsetmode",
     "mmap", "malloc"}

\* A faulty variant, which the properties of the session must tell from the
\* code: the label out: without the teardown
acquire_out_no_teardown(S, r, ub) == [S EXCEPT !.ret = r]

\* the label out: of tfb_acquire_fb
acquire_out(S, r, ub) ==
    IF r # "TFB_SUCCESS"
    THEN [tfb_release_fb(S, ub) EXCEPT !.ret = r]
    ELSE [S EXCEPT !.ret = r]

\* from the mmap call to the end
acquire_map(S, flags, env, ub) ==
    IF env.fail = "mmap" \/ IsZero(S.fb_size) \/ S.maps[env.maddr]
    THEN acquire_out([S EXCEPT !.fb_real_buffer = MAP_FAILED],
                     "TFB_MMAP_FB_ERROR", ub)
    ELSE
    LET S1 == [S EXCEPT !.fb_real_buffer = MapPtr(env.maddr),
                        !.maps[env.maddr] = TRUE]
        shadow == "TFB_FL_USE_SHADOW_BUFFER" \in flags
        nomem == env.fail = "malloc" \/ S.heap[env.haddr].live
        S2 == IF ~shadow THEN [S1 EXCEPT !.fb_buffer = S1.fb_real_buffer]
              ELSE IF nomem THEN [S1 EXCEPT !.fb_buffer = NULL]
              ELSE [S1 EXCEPT !.fb_buffer = HeapPtr(env.haddr),
                              !.heap[env.haddr] =
                                  [live |-> TRUE,
                                   data |-> HeapContent(Words(S1.fb_size), env.seed)]]
        S3 == [S2 EXCEPT !.fb_screen_w = S2.fbi.xres,
                         !.fb_screen_h = S2.fbi.yres]
    IN  IF shadow /\ nomem THEN acquire_out(S2, "TFB_OUT_OF_MEMORY", ub)
        ELSE acquire_out(tfb_set_window(S3, U(0), U(0), S3.fb_screen_w, S3.fb_screen_h),
                         "TFB_SUCCESS", ub)

\* from the terminal's open to the end
acquire_tty(S, flags, env, ub) ==
    IF "TFB_FL_NO_TTY_KD_GRAPHICS" \in flags THEN acquire_map(S, flags, env, ub)
    ELSE IF env.fail = "open_tty" \/ FreeFds(S) = {}
    THEN acquire_out([S EXCEPT !.ttyfd = -1], "TFB_ERROR_OPEN_TTY", ub)
    ELSE
    LET S1 == [S EXCEPT !.ttyfd = LowestFree(S), !.fds[LowestFree(S)] = "tty"]
    IN  IF env.fail = "kdsetmode"
        THEN acquire_out(S1, "TFB_ERROR_TTY_GRAPHIC_MODE", ub)
        ELSE acquire_map([S1 EXCEPT !.kd_mode = "KD_GRAPHICS"], flags, env, ub)

tfb_acquire_fb(S, flags, env, ub) ==
    IF env.fail = "open_fb" \/ FreeFds(S) = {}
    THEN acquire_out([S EXCEPT !.fbfd = -1], "TFB_ERROR_OPEN_FB", ub)
    ELSE
    LET S1 == [S EXCEPT !.fbfd = LowestFree(S), !.fds[LowestFree(S)] = "fb"]
        S2 == [S1 EXCEPT !.fb_fixinfo = dev.geom.line_length]
        S3 == [S2 EXCEPT !.fbi = VarInfo(dev)]
        S4 == [S3 EXCEPT !.fb_pitch = S3.fb_fixinfo,
                         !.fb_size = Mul32(S3.fb_fixinfo, S3.fbi.yres),
                         !.fb_pitch_div4 = Shr2(S3.fb_fixinfo)]
    IN  IF env.fail = "fscreeninfo" THEN acquire_out(S1, "TFB_ERROR_IOCTL_FB", ub)
        ELSE IF env.fail = "vscreeninfo" THEN acquire_out(S2, "TFB_ERROR_IOCTL_FB", ub)
        ELSE IF S4.fbi.bits_per_pixel # 32
        THEN acquire_out(S4, "TFB_UNSUPPORTED_VIDEO_MODE", ub)
        ELSE IF ~check_fb_assumptions(S4)
        THEN acquire_out(S4, "TFB_ASSUMPTION_FAILED", ub)
        ELSE acquire_tty(S4, flags, env, ub)


(***************************************************************************)
(* tfb_flush_window.  dest and src are the two buffers plus the same byte  *)
(* offset  off_y * pitch + (off_x << 2),  both terms u32; each of the      *)
(* win_h rows copies  win_w << 2  bytes and then moves on by pitch_div4    *)
(* words.  The line lengths and buffer sizes of the devices modelled are   *)
(* below 2^16, so an offset or length of 2^16 or more is out of bounds and *)
(* is not computed further.                                                *)
(***************************************************************************)
\* a pointer the program may access, and the words it points to
Live(S, p) ==
    \/ p.kind = "map" /\ S.maps[p.id]
    \/ p.kind = "heap" /\ S.heap[p.id].live

Data(S, p) == IF p.kind = "map" THEN S.vram ELSE S.heap[p.id].data

\* the copy has nothing to do: no row, or rows of no bytes
FlushEmpty(S) == IsZero(S.fb_win_h) \/ IsZero(Shl2(S.fb_win_w))

\* the offset of the first byte is 2^16 or more
FlushBaseFar(S) == Mul32(S.fb_off_y, S.fb_pitch)[1] > 0 \/ Shl2(S.fb_off_x)[1] > 0

FlushBase(S) == Val(Mul32(S.fb_off_y, S.fb_pitch)) + Val(Shl2(S.fb_off_x))

FlushStride(S) == 4 * Val(S.fb_pitch_div4)

\* whether the copy touches a byte at offset n or beyond
FlushBeyond(S, n) ==
    /\ ~FlushEmpty(S)
    /\ \/ FlushBaseFar(S)
       \/ Shl2(S.fb_win_w)[1] > 0
       \/ S.fb_win_h[1] > 0 /\ FlushStride(S) > 0
       \/ FlushBase(S) + Val(Shl2(S.fb_win_w))
             + (IF FlushStride(S) = 0 THEN 0
                ELSE (Val(S.fb_win_h) - 1) * FlushStride(S)) > n

\* the byte offsets below n that the copy touches
FlushBytes(S, n) ==
    IF FlushEmpty(S) \/ FlushBaseFar(S) THEN {}
    ELSE LET rows == IF S.fb_win_h[1] > 0 \/ Val(S.fb_win_h) > n
                     THEN n ELSE Val(S.fb_win_h)
         IN  { o \in 0..(n - 1) :
                 \E r \in 0..(rows - 1) :
                    /\ FlushBase(S) + r * FlushStride(S) <= o
                    /\ \/ Shl2(S.fb_win_w)[1] > 0
                       \/ o < FlushBase(S) + r * FlushStride(S)
                                + Val(Shl2(S.fb_win_w)) }

\* the loop of tfb_flush_window; the result is the state, the byte offsets
\* within the mapped region it wrote, and whether it touched memory outside
\* a buffer
flush_copy(S, ub) ==
    IF FlushEmpty(S)
    THEN [st |-> S, written |-> {}, oob |-> FALSE]
    ELSE IF ~Live(S, S.fb_real_buffer) \/ ~Live(S, S.fb_buffer)
    THEN [st |-> Undefined(S, ub), written |-> {}, oob |-> TRUE]
    ELSE
    LET dst == Data(S, S.fb_real_buffer)
        src == Data(S, S.fb_buffer)
        n == 4 * (IF Len(dst) < Len(src) THEN Len(dst) ELSE Len(src))
        bytes == FlushBytes(S, n)
        oob == FlushBeyond(S, 4 * Len(dst)) \/ FlushBeyond(S, 4 * Len(src))
        new == [i \in 1..Len(dst) |->
                  IF 4 * (i - 1) \in bytes THEN src[i] ELSE dst[i]]
        S1 == IF S.fb_real_buffer.kind = "map"
              THEN [S EXCEPT !.vram = new]
              ELSE [S EXCEPT !.heap[S.fb_real_buffer.id].data = new]
    IN  IF ~oob THEN [st |-> S1, written |-> bytes, oob |-> FALSE]
        ELSE IF ub = "crashed"
        THEN [st |-> Undefined(S, ub), written |-> {}, oob |-> TRUE]
        ELSE [st |-> Undefined(S1, ub), written |-> bytes, oob |-> TRUE]

\* A faulty variant, which the properties of the flush must tell from the
\* code: the copy made whether or not the two buffers are one
flush_window_unguarded(S, ub) == flush_copy(S, ub)

tfb_flush_window(S, ub) ==
    IF S.fb_buffer = S.fb_real_buffer
    THEN [st |-> S, written |-> {}, oob |-> FALSE]
    ELSE flush_copy(S, ub)

(***************************************************************************)
(* Whether the program holds anything of the system.                       *)
(***************************************************************************)
NothingHeld ==
    /\ \A f \in Fds : fds[f] = "free"
    /\ \A k \in 1..MaxMaps : ~maps[k]
    /\ \A k \in 1..MaxAllocs : ~heap[k].live
    /\ kd_mode = "KD_TEXT"

(***************************************************************************)
(* Actions of the session, the window and the flush.                       *)
(***************************************************************************)
\* where mmap and malloc can place a new region: any free address (with
\* none free the call fails, whichever address is named)
MapChoices ==
    IF \E k \in 1..MaxMaps : ~maps[k] THEN {k \in 1..MaxMaps : ~maps[k]} ELSE {1}

HeapChoices ==
    IF \E k \in 1..MaxAllocs : ~heap[k].live
    THEN {k \in 1..MaxAllocs : ~heap[k].live} ELSE {1}

Called(op) == [NoCall EXCEPT !.op = op, !.held = ~NothingHeld]

\* a call of tfb_acquire_fb in which the system call that fails, if any, is
\* one of fails
AcquireWith(flagsets, fails) ==
    /\ fault # "crashed"
    /\ \E flags \in flagsets, fail \in fails,
          maddr \in MapChoices, haddr \in HeapChoices, seed \in GarbageSeeds,
          ub \in UbOutcomes :
          \E S \in {tfb_acquire_fb(St, flags,
                       [fail |-> fail, maddr |-> maddr, haddr |-> haddr,
                        seed |-> seed], ub)} :
              /\ Install(S)
              /\ last' = [Called("acquire") EXCEPT
                            !.ret = IF S.fault = "crashed" THEN "no_return" ELSE S.ret,
                            !.flags = flags, !.sys = S.sys, !.undef = S.undef]
    /\ UNCHANGED <<kbVars, keyVars, dev, char_signed>>

Acquire == AcquireWith(SUBSET AllFlags, AcquireFails)

\* tfb_acquire_fb where no system call fails while descriptors and
\* addresses last
AcquireOk ==
    AcquireWith({{"TFB_FL_NO_TTY_KD_GRAPHICS"}, {"TFB_FL_NO_TTY_KD_GRAPHICS", "TFB_FL_USE_SHADOW_BUFFER"}}, {"none"})

\* args of a release: the call before it and what that call returned
Release ==
    /\ fault # "crashed"
    /\ \E ub \in UbOutcomes :
          \E S \in {tfb_release_fb(St, ub)} :
              /\ Install(S)
              /\ last' = [Called("release") EXCEPT
                            !.ret = IF S.fault = "crashed" THEN "no_return" ELSE "void",
                            !.args = <<last.op, last.ret>>,
                            !.sys = S.sys, !.undef = S.undef]
    /\ UNCHANGED <<kbVars, keyVars, dev, char_signed>>

SetWindow ==
    /\ fault # "crashed"
    /\ \E x \in U32Samples, y \in U32Samples, w \in U32Samples, h \in U32Samples :
          \E S \in {tfb_set_window(St, x, y, w, h)} :
              /\ Install(S)
              /\ last' = [Called("set_window") EXCEPT !.ret = S.ret]
    /\ UNCHANGED <<kbVars, keyVars, dev, char_signed>>

Flush ==
    /\ fault # "crashed"
    /\ \E ub \in UbOutcomes :
          \E R \in {tfb_flush_window(St, ub)} :
              /\ Install(R.st)
              /\ last' = [Called("flush") EXCEPT
                            !.ret = IF R.st.fault = "crashed" THEN "no_return" ELSE "void",
                            !.written = R.written, !.oob = R.oob,
                            !.undef = R.st.undef]
    /\ UNCHANGED <<kbVars, keyVars, dev, char_signed>>

(***************************************************************************)
(* Terminal mode.  A struct termios is its c_iflag and c_lflag, each the   *)
(* set of the flags that are on; the code touches no other field.          *)
(***************************************************************************)
IFlags == {"BRKINT", "INPCK", "ISTRIP", "IXON", "ICRNL"}

LFlags == {"ECHO", "ICANON", "IEXTEN", "ISIG", "TOSTOP"}

TermAttrs == [c_iflag : SUBSET IFlags, c_lflag : SUBSET LFlags]

\* static storage starts zeroed
ZeroTermios == [c_iflag |-> {}, c_lflag |-> {}]

\* the terminal state as one value
Kb ==
    [orig_termios |-> orig_termios, tfb_kb_raw_mode |-> tfb_kb_raw_mode,
     term_attr |-> term_attr, ret |-> "TFB_SUCCESS"]

\* Three faulty variants, which the properties of the terminal mode must tell
\* from the code:
\* tfb_set_kb_raw_mode whose guard on the raw-mode flag is gone
set_kb_raw_mode_unguarded(K, tcget_ok, tcset_ok) ==
    IF ~tcget_ok THEN [K EXCEPT !.ret = "TFB_KB_MODE_GET_FAILED"]
    ELSE IF ~tcset_ok
    THEN [K EXCEPT !.orig_termios = K.term_attr, !.ret = "TFB_KB_MODE_SET_FAILED"]
    ELSE [K EXCEPT !.orig_termios = K.term_attr,
                   !.term_attr =
                       [c_iflag |-> K.term_attr.c_iflag
                                       \ {"BRKINT", "INPCK", "ISTRIP", "IXON"},
                        c_lflag |-> K.term_attr.c_lflag
                                       \ {"ECHO", "ICANON", "IEXTEN", "ISIG"}],
                   !.tfb_kb_raw_mode = TRUE, !.ret = "TFB_SUCCESS"]

\* tfb_restore_kb_mode that clears the flag and leaves the terminal alone
restore_kb_mode_flag_only(K, tcset_ok) ==
    IF ~K.tfb_kb_raw_mode THEN [K EXCEPT !.ret = "TFB_KB_WRONG_MODE"]
    ELSE IF ~tcset_ok THEN [K EXCEPT !.ret = "TFB_KB_MODE_SET_FAILED"]
    ELSE [K EXCEPT !.tfb_kb_raw_mode = FALSE, !.ret = "TFB_SUCCESS"]

\* tfb_set_kb_raw_mode that calls tcgetattr on orig_termios before it tests
\* the raw-mode flag
set_kb_raw_mode_snapshot_first(K, tcget_ok, tcset_ok) ==
    IF ~tcget_ok
    THEN [K EXCEPT !.ret = IF K.tfb_kb_raw_mode THEN "TFB_KB_WRONG_MODE"
                           ELSE "TFB_KB_MODE_GET_FAILED"]
    ELSE IF K.tfb_kb_raw_mode
    THEN [K EXCEPT !.orig_termios = K.term_attr, !.ret = "TFB_KB_WRONG_MODE"]
    ELSE IF ~tcset_ok
    THEN [K EXCEPT !.orig_termios = K.term_attr, !.ret = "TFB_KB_MODE_SET_FAILED"]
    ELSE [K EXCEPT !.orig_termios = K.term_attr,
                   !.term_attr =
                       [c_iflag |-> K.term_attr.c_iflag
                                       \ {"BRKINT", "INPCK", "ISTRIP", "IXON"},
                        c_lflag |-> K.term_attr.c_lflag
                                       \ {"ECHO", "ICANON", "IEXTEN", "ISIG"}],
                   !.tfb_kb_raw_mode = TRUE, !.ret = "TFB_SUCCESS"]

\* tcget_ok, tcset_ok: whether tcgetattr and tcsetattr succeed if called
tfb_set_kb_raw_mode(K, tcget_ok, tcset_ok) ==
    IF K.tfb_kb_raw_mode THEN [K EXCEPT !.ret = "TFB_KB_WRONG_MODE"]
    ELSE IF ~tcget_ok THEN [K EXCEPT !.ret = "TFB_KB_MODE_GET_FAILED"]
    ELSE
    LET K1 == [K EXCEPT !.orig_termios = K.term_attr]
        t == [c_iflag |-> K1.orig_termios.c_iflag
                             \ {"BRKINT", "INPCK", "ISTRIP", "IXON"},
              c_lflag |-> K1.orig_termios.c_lflag
                             \ {"ECHO", "ICANON", "IEXTEN", "ISIG"}]
    IN  IF ~tcset_ok THEN [K1 EXCEPT !.ret = "TFB_KB_MODE_SET_FAILED"]
        ELSE [K1 EXCEPT !.term_attr = t, !.tfb_kb_raw_mode = TRUE,
                        !.ret = "TFB_SUCCESS"]

tfb_restore_kb_mode(K, tcset_ok) ==
    IF ~K.tfb_kb_raw_mode THEN [K EXCEPT !.ret = "TFB_KB_WRONG_MODE"]
    ELSE IF ~tcset_ok THEN [K EXCEPT !.ret = "TFB_KB_MODE_SET_FAILED"]
    ELSE [K EXCEPT !.term_attr = K.orig_termios, !.tfb_kb_raw_mode = FALSE,
                   !.ret = "TFB_SUCCESS"]

InstallKb(K) ==
    /\ orig_termios' = K.orig_termios
    /\ tfb_kb_raw_mode' = K.tfb_kb_raw_mode
    /\ term_attr' = K.term_attr

\* args of a terminal call: the raw-mode flag and the attributes it found
SetKbRawMode ==
    /\ \E tcget_ok \in BOOLEAN, tcset_ok \in BOOLEAN :
          \E K \in {tfb_set_kb_raw_mode(Kb, tcget_ok, tcset_ok)} :
              /\ InstallKb(K)
              /\ last' = [Called("set_kb_raw_mode") EXCEPT
                            !.ret = K.ret,
                            !.args = <<tfb_kb_raw_mode, term_attr, orig_termios>>]
              /\ attr_at_enter' = IF K.ret = "TFB_SUCCESS" THEN term_attr
                                  ELSE attr_at_enter
    /\ UNCHANGED <<fbVars, keyVars, dev, char_signed>>

RestoreKbMode ==
    /\ \E tcset_ok \in BOOLEAN :
          \E K \in {tfb_restore_kb_mode(Kb, tcset_ok)} :
              /\ InstallKb(K)
              /\ last' = [Called("restore_kb_mode") EXCEPT
                            !.ret = K.ret,
                            !.args = <<tfb_kb_raw_mode, term_attr, orig_termios>>]
    /\ UNCHANGED <<fbVars, keyVars, dev, char_signed, attr_at_enter>>


(***************************************************************************)
(* The keypress decoder.  A call blocks in read() once per byte, so it is  *)
(* modelled one read() at a time; the environment supplies each result.    *)
(***************************************************************************)
ESC == 27

BRACKET == 91

Byte == 0..255

\* read() results tried inside an escape sequence
EscSamples == {63, 64, 91, 126, 128}

ReadFailed == -1

\* what a read() of one byte can result in: a failure (or the end of the
\* input) or the byte read
ReadResults == ReadFailed..255

\* a byte stored into a plain char
ToChar(b) == IF char_signed /\ b >= 128 THEN b - 256 ELSE b

\* a plain char converted to uint64_t
U64OfChar(c) ==
    IF c < 0 THEN <<c + 256, 255, 255, 255, 255, 255, 255, 255>>
    ELSE <<c, 0, 0, 0, 0, 0, 0, 0>>

U64Zero == <<0, 0, 0, 0, 0, 0, 0, 0>>

\* the loop's test for the final byte of a sequence, on the char read
IsFinal(c) == 64 <= c /\ c <= 126 /\ c # BRACKET

\* the decoder's state as one value
Dec ==
    [pc |-> pc, esc_buf |-> esc_buf, esc_len |-> esc_len, reads |-> reads,
     keyret |-> keyret]

\* return v: buf and len are locals and end with the call
Return(D, v) ==
    [D EXCEPT !.pc = "idle", !.keyret = v, !.esc_buf = U64Zero, !.esc_len = 0]

\* buf[len++] = c
Store(D, b) == [D EXCEPT !.esc_buf[D.esc_len + 1] = b, !.esc_len = D.esc_len + 1]

\* tfb_read_keypress up to the first read() of read_esc_seq
tfb_read_keypress(D, r) ==
    LET D1 == [D EXCEPT !.reads = <<r>>, !.keyret = U64Zero]
    IN  IF r = ReadFailed THEN Return(D1, U64Zero)
        ELSE IF ToChar(r) # ESC THEN Return(D1, U64OfChar(ToChar(r)))
        ELSE [Store([D1 EXCEPT !.esc_buf = U64Zero, !.esc_len = 0], ESC)
                 EXCEPT !.pc = "esc_first"]

\* A faulty variant, which the properties of the decoder must tell from the
\* code: any second byte taken for the '['
read_esc_seq_first_any(D, r) ==
    IF r = ReadFailed THEN Return([D EXCEPT !.reads = Append(@, r)], U64Zero)
    ELSE [Store([D EXCEPT !.reads = Append(@, r)], r) EXCEPT !.pc = "esc_loop"]

\* read_esc_seq: the read() before the loop
read_esc_seq_first(D, r) ==
    LET D1 == [D EXCEPT !.reads = Append(@, r)]
    IN  IF r = ReadFailed THEN Return(D1, U64Zero)
        ELSE IF ToChar(r) # BRACKET THEN Return(D1, U64Zero)
        ELSE [Store(D1, r) EXCEPT !.pc = "esc_loop"]

\* A faulty variant, which the properties of the decoder must tell from the
\* code:
\* read_esc_seq's loop with the test for a full buffer ahead of the test for
\* the final byte
read_esc_seq_loop_full_first(D, r) ==
    IF r = ReadFailed THEN Return([D EXCEPT !.reads = Append(@, r)], U64Zero)
    ELSE IF D.esc_len + 1 = 8
    THEN Return(Store([D EXCEPT !.reads = Append(@, r)], r), U64Zero)
    ELSE IF IsFinal(ToChar(r))
    THEN Return(Store([D EXCEPT !.reads = Append(@, r)], r),
                Store([D EXCEPT !.reads = Append(@, r)], r).esc_buf)
    ELSE Store([D EXCEPT !.reads = Append(@, r)], r)

\* A faulty variant, which the properties of the decoder must tell from the
\* code: a full buffer ends the loop as a final byte does
read_esc_seq_loop_full_break(D, r) ==
    IF r = ReadFailed THEN Return([D EXCEPT !.reads = Append(@, r)], U64Zero)
    ELSE IF IsFinal(ToChar(r)) \/ D.esc_len + 1 = 8
    THEN Return(Store([D EXCEPT !.reads = Append(@, r)], r),
                Store([D EXCEPT !.reads = Append(@, r)], r).esc_buf)
    ELSE Store([D EXCEPT !.reads = Append(@, r)], r)

\* A faulty variant, which the properties of the decoder must tell from the
\* code: a '[' in the loop taken for a final byte
read_esc_seq_loop_bracket_final(D, r) ==
    IF r = ReadFailed THEN Return([D EXCEPT !.reads = Append(@, r)], U64Zero)
    ELSE IF 64 <= ToChar(r) /\ ToChar(r) <= 126
    THEN Return(Store([D EXCEPT !.reads = Append(@, r)], r),
                Store([D EXCEPT !.reads = Append(@, r)], r).esc_buf)
    ELSE IF D.esc_len + 1 = 8
    THEN Return(Store([D EXCEPT !.reads = Append(@, r)], r), U64Zero)
    ELSE Store([D EXCEPT !.reads = Append(@, r)], r)

\* A faulty variant, which the properties of the decoder must tell from the
\* code: the buffer taken for full one byte late
read_esc_seq_loop_full_late(D, r) ==
    IF r = ReadFailed THEN Return([D EXCEPT !.reads = Append(@, r)], U64Zero)
    ELSE IF IsFinal(ToChar(r))
    THEN Return(Store([D EXCEPT !.reads = Append(@, r)], r),
                Store([D EXCEPT !.reads = Append(@, r)], r).esc_buf)
    ELSE IF D.esc_len + 1 = 9
    THEN Return([D EXCEPT !.reads = Append(@, r)], U64Zero)
    ELSE IF D.esc_len + 1 = 8
    THEN [D EXCEPT !.reads = Append(@, r), !.esc_buf[8] = r, !.esc_len = 8]
    ELSE Store([D EXCEPT !.reads = Append(@, r)], r)

\* read_esc_seq: one turn of the loop
read_esc_seq_loop(D, r) ==
    LET D1 == [D EXCEPT !.reads = Append(@, r)]
        D2 == Store(D1, r)
    IN  IF r = ReadFailed THEN Return(D1, U64Zero)
        ELSE IF IsFinal(ToChar(r)) THEN Return(D2, D2.esc_buf)
        ELSE IF D2.esc_len = 8 THEN Return(D2, U64Zero)
        ELSE D2

InstallDec(D) ==
    /\ pc' = D.pc
    /\ esc_buf' = D.esc_buf
    /\ esc_len' = D.esc_len
    /\ reads' = D.reads
    /\ keyret' = D.keyret

\* a call of tfb_read_keypress whose first read() results in one of R
ReadKeypressFrom(R) ==
    /\ pc = "idle"
    /\ \E r \in ReadResults :
          /\ r \in R
          /\ \E D \in {tfb_read_keypress(Dec, r)} : InstallDec(D)
    /\ last' = Called("read_keypress")
    /\ UNCHANGED <<fbVars, kbVars, dev, char_signed>>

EscFirstFrom(R) ==
    /\ pc = "esc_first"
    /\ \E r \in ReadResults :
          /\ r \in R
          /\ \E D \in {read_esc_seq_first(Dec, r)} : InstallDec(D)
    /\ UNCHANGED <<fbVars, kbVars, dev, char_signed, last>>

EscLoopFrom(R) ==
    /\ pc = "esc_loop"
    /\ \E r \in ReadResults :
          /\ r \in R
          /\ \E D \in {read_esc_seq_loop(Dec, r)} : InstallDec(D)
    /\ UNCHANGED <<fbVars, kbVars, dev, char_signed, last>>

ReadKeypress == ReadKeypressFrom(ReadResults)

EscFirst == EscFirstFrom(ReadResults)

EscLoop == EscLoopFrom(EscSamples \cup {ReadFailed})

(***************************************************************************)
(* The function keys.  A key code is compared as a uint64_t, that is, all  *)
(* 8 bytes of it.                                                          *)
(***************************************************************************)
tfb_fn_key_seq_char ==
    << <<27, 91, 91, 65, 0, 0, 0, 0>>,
       <<27, 91, 91, 66, 0, 0, 0, 0>>,
       <<27, 91, 91, 67, 0, 0, 0, 0>>,
       <<27, 91, 91, 68, 0, 0, 0, 0>>,
       <<27, 91, 91, 69, 0, 0, 0, 0>>,
       <<27, 91, 49, 55, 126, 0, 0, 0>>,
       <<27, 91, 49, 56, 126, 0, 0, 0>>,
       <<27, 91, 49, 57, 126, 0, 0, 0>>,
       <<27, 91, 50, 48, 126, 0, 0, 0>>,
       <<27, 91, 50, 49, 126, 0, 0, 0>>,
       <<27, 91, 50, 51, 126, 0, 0, 0>>,
       <<27, 91, 50, 52, 126, 0, 0, 0>> >>

\* (uint64_t *)tfb_fn_key_seq_char
tfb_fn_key_sequences == tfb_fn_key_seq_char

\* the loop of tfb_get_fn_key_num from index i on
RECURSIVE fn_key_search(_, _)
fn_key_search(k, i) ==
    IF i >= 12 THEN 0
    ELSE IF tfb_fn_key_sequences[i + 1] = k THEN i + 1
    ELSE fn_key_search(k, i + 1)

\* A faulty variant, which the properties of the function keys must tell
\* from the code: the index returned as it is
get_fn_key_num_index(k) ==
    IF \E i \in 0..11 : tfb_fn_key_sequences[i + 1] = k
    THEN (CHOOSE i \in 0..11 : tfb_fn_key_sequences[i + 1] = k) ELSE 0

tfb_get_fn_key_num(k) == fn_key_search(k, 0)

\* codes that are in no entry of the table: 0, cursor up, ESC [ 1 5 ~, and
\* entries changed in one byte
OtherCodes ==
    { U64Zero,
      <<27, 91, 65, 0, 0, 0, 0, 0>>,
      <<27, 91, 49, 53, 126, 0, 0, 0>>,
      <<27, 91, 91, 65, 0, 0, 0, 1>>,
      <<27, 91, 91, 70, 0, 0, 0, 0>>,
      <<27, 91, 50, 52, 126, 0, 0, 128>>,
      <<65, 0, 0, 0, 0, 0, 0, 0>> }

FnCodes == {tfb_fn_key_sequences[i] : i \in 1..12} \cup OtherCodes

\* a call of tfb_get_fn_key_num, on what tfb_read_keypress returned last or
\* on one of FnCodes; args is the code
GetFnKeyNum ==
    /\ pc = "idle"
    /\ \E k \in FnCodes \cup {keyret} :
          last' = [Called("get_fn_key_num") EXCEPT
                      !.args = <<k>>, !.ret = tfb_get_fn_key_num(k)]
    /\ UNCHANGED <<fbVars, kbVars, keyVars, dev, char_signed>>

\* the bytes of the i-th function key as the terminal sends them
FnPattern(i) ==
    SubSeq(tfb_fn_key_seq_char[i], 1,
           Cardinality({j \in 1..8 : tfb_fn_key_seq_char[i][j] # 0}))

\* the bytes with which the input can go on after those in s, when the
\* terminal sends function keys
FnInput(s) ==
    { FnPattern(i)[Len(s) + 1] :
        i \in {n \in 1..12 : /\ Len(s) < Len(FnPattern(n))
                             /\ SubSeq(FnPattern(n), 1, Len(s)) = s} }

FnReadKeypress == ReadKeypressFrom(FnInput(<<>>) \cup {65, ReadFailed})

FnEscFirst == EscFirstFrom(FnInput(reads) \cup {ReadFailed})

FnEscLoop == EscLoopFrom(FnInput(reads) \cup {ReadFailed})

(***************************************************************************)
(* Initial states and specifications.                                      *)
(***************************************************************************)
\* the program's own state when it starts: static storage is zeroed, the
\* descriptors are -1, nothing is open, mapped or allocated
InitProgram ==
    /\ fbi = ZeroVarInfo
    /\ fb_fixinfo = U(0)
    /\ fbfd = -1
    /\ ttyfd = -1
    /\ fb_pitch = U(0)
    /\ fb_size = U(0)
    /\ fb_pitch_div4 = U(0)
    /\ fb_real_buffer = NULL
    /\ fb_buffer = NULL
    /\ fb_screen_w = U(0)
    /\ fb_screen_h = U(0)
    /\ fb_off_x = U(0)
    /\ fb_off_y = U(0)
    /\ fb_win_w = U(0)
    /\ fb_win_h = U(0)
    /\ fb_win_end_x = U(0)
    /\ fb_win_end_y = U(0)
    /\ orig_termios = ZeroTermios
    /\ tfb_kb_raw_mode = FALSE
    /\ fds = [f \in Fds |-> "free"]
    /\ kd_mode = "KD_TEXT"
    /\ maps = [k \in 1..MaxMaps |-> FALSE]
    /\ heap = [k \in 1..MaxAllocs |-> FreeHeap]
    /\ fault = "none"
    /\ attr_at_enter = ZeroTermios
    /\ pc = "idle"
    /\ esc_buf = U64Zero
    /\ esc_len = 0
    /\ reads = <<>>
    /\ keyret = U64Zero
    /\ last = NoCall

\* the device memory as mapped: line_length * yres bytes
InitDevice(D) ==
    /\ dev \in D
    /\ vram = DeviceContent(Words(Mul32(dev.geom.line_length, dev.geom.yres)))

GoodFormat ==
    CHOOSE f \in Formats :
        f.bits_per_pixel = 32 /\ f.red = 0 /\ f.green = 0 /\ f.blue = 0

DefaultGeom == Geom(2, 1, 0, 0, 8)

DefaultDevice == [geom |-> DefaultGeom, fmt |-> GoodFormat]

DefaultAttr == [c_iflag |-> IFlags, c_lflag |-> LFlags]

Init ==
    /\ InitProgram
    /\ InitDevice(Devices)
    /\ term_attr \in TermAttrs
    /\ char_signed \in BOOLEAN

NextSession == Acquire \/ Release

NextWin == AcquireOk \/ SetWindow \/ Flush

NextKb == SetKbRawMode \/ RestoreKbMode

NextKey == ReadKeypress \/ EscFirst \/ EscLoop

NextFn == FnReadKeypress \/ FnEscFirst \/ FnEscLoop \/ GetFnKeyNum

Next ==
    Acquire \/ Release \/ SetWindow \/ Flush \/ NextKb \/ NextKey \/ GetFnKeyNum

\* every call in any order, from every initial state
Spec == Init /\ [][Next]_vars

(***************************************************************************)
(* The groups of calls below share no state with one another beyond what   *)
(* each specification keeps, so each is explored on its own, the rest of   *)
(* the state left at one initial value.                                    *)
(***************************************************************************)
\* the session's life: acquire and release in any order, on a device of
\* every pixel format
InitSession ==
    /\ InitProgram
    /\ InitDevice({d \in Devices : d.geom = DefaultGeom})
    /\ term_attr = DefaultAttr
    /\ char_signed = TRUE

SpecSession == InitSession /\ [][NextSession]_vars

\* the window and the flush, on a device of every geometry, where system
\* calls fail only for want of a descriptor or an address
InitWin ==
    /\ InitProgram
    /\ InitDevice({d \in Devices : d.fmt = GoodFormat})
    /\ term_attr = DefaultAttr
    /\ char_signed = TRUE

SpecWin == InitWin /\ [][NextWin]_vars

\* the terminal mode
InitKb ==
    /\ InitProgram
    /\ InitDevice({DefaultDevice})
    /\ term_attr \in TermAttrs
    /\ char_signed = TRUE

SpecKb == InitKb /\ [][NextKb]_vars

\* the keypress decoder
InitKey ==
    /\ InitProgram
    /\ InitDevice({DefaultDevice})
    /\ term_attr = DefaultAttr
    /\ char_signed \in BOOLEAN

SpecKey == InitKey /\ [][NextKey]_vars

\* the function keys: the terminal sends function keys, and the program
\* looks up what it read and other codes
InitFn ==
    /\ InitProgram
    /\ InitDevice({DefaultDevice})
    /\ term_attr = DefaultAttr
    /\ char_signed \in BOOLEAN

SpecFn == InitFn /\ [][NextFn]_vars

(***************************************************************************)
(* Properties of the window and the flush, checked under SpecWin.          *)
(***************************************************************************)

\* the true sum a + b is at most c
SumFits(a, b, c) == Carry(a, b) = 0 /\ Le32(Add32(a, b), c)

\* C1: for all u32 x, y, w, h with x + w <= screen_w and y + h <= screen_h,
\* tfb_set_window called in any reachable state returns TFB_SUCCESS and
\* stores offset = (xoffset + x, yoffset + y), size = (w, h) and
\* end = (offset.x + w, offset.y + h).
C1_ValidWindowStored ==
    \A x \in U32Samples, y \in U32Samples, w \in U32Samples, h \in U32Samples :
        (SumFits(x, w, fb_screen_w) /\ SumFits(y, h, fb_screen_h)) =>
            \E S \in {tfb_set_window(St, x, y, w, h)} :
                /\ S.ret = "TFB_SUCCESS"
                /\ S.fb_off_x = Add32(fbi.xoffset, x)
                /\ S.fb_off_y = Add32(fbi.yoffset, y)
                /\ S.fb_win_w = w
                /\ S.fb_win_h = h
                /\ S.fb_win_end_x = Add32(S.fb_off_x, w)
                /\ S.fb_win_end_y = Add32(S.fb_off_y, h)

\* a session on the device whose visible area starts at column 1, with the
\* window (0, 1) of size 1 x 1 stored by the last call
C1_Witness ==
    /\ last.op = "set_window"
    /\ last.ret = "TFB_SUCCESS"
    /\ fbi.xoffset = U(1)
    /\ fb_screen_w = U(1)
    /\ fb_screen_h = U(2)
    /\ fb_off_x = U(1)
    /\ fb_off_y = U(1)
    /\ fb_win_w = U(1)
    /\ fb_win_h = U(1)
    /\ fb_win_end_x = U(2)
    /\ fb_win_end_y = U(2)

\* a session is acquired: the device is open and mapped
Acquired ==
    /\ fbfd \in Fds
    /\ fds[fbfd] = "fb"
    /\ Live(St, fb_real_buffer)
    /\ Live(St, fb_buffer)

\* C2: for all u32 x, y, w, h whose true sum x + w exceeds screen_w or whose
\* true sum y + h exceeds screen_h, tfb_set_window called in an acquired
\* session returns TFB_INVALID_WINDOW and leaves the six window fields as
\* they were.
C2_OverflowRejected ==
    Acquired =>
    \A x \in U32Samples, y \in U32Samples, w \in U32Samples, h \in U32Samples :
        (~SumFits(x, w, fb_screen_w) \/ ~SumFits(y, h, fb_screen_h)) =>
            \E S \in {tfb_set_window(St, x, y, w, h)} :
                /\ S.ret = "TFB_INVALID_WINDOW"
                /\ S.fb_off_x = fb_off_x
                /\ S.fb_off_y = fb_off_y
                /\ S.fb_win_w = fb_win_w
                /\ S.fb_win_h = fb_win_h
                /\ S.fb_win_end_x = fb_win_end_x
                /\ S.fb_win_end_y = fb_win_end_y

\* shadow-buffer mode: the mapping is there and the drawing buffer is a
\* live allocation of its own
ShadowMode ==
    /\ fb_real_buffer.kind = "map"
    /\ maps[fb_real_buffer.id]
    /\ fb_buffer.kind = "heap"
    /\ heap[fb_buffer.id].live

\* a u32 small enough to be an offset within the devices modelled
Small(a) == a[1] = 0 /\ a[2] <= 64

ViewportEmpty == IsZero(fb_win_w) \/ IsZero(fb_win_h)

\* the viewport lies within the mapped region
ViewportInside ==
    \/ ViewportEmpty
    \/ /\ Small(fb_off_x) /\ Small(fb_off_y) /\ Small(fb_win_w) /\ Small(fb_win_h)
       /\ (Val(fb_off_y) + Val(fb_win_h) - 1) * Val(fb_pitch)
             + 4 * (Val(fb_off_x) + Val(fb_win_w)) <= 4 * Len(vram)

\* the byte offsets of the viewport: row r of the window starts at byte
\* (off_y + r) * pitch + off_x * 4 and is 4 * win_w bytes long
ViewportBytes ==
    IF ViewportEmpty \/ ~ViewportInside THEN {}
    ELSE { o \in 0..(4 * Len(vram) - 1) :
             \E r \in 0..(Val(fb_win_h) - 1) :
                /\ (Val(fb_off_y) + r) * Val(fb_pitch) + 4 * Val(fb_off_x) <= o
                /\ o < (Val(fb_off_y) + r) * Val(fb_pitch)
                          + 4 * (Val(fb_off_x) + Val(fb_win_w)) }

\* C3: in shadow-buffer mode tfb_flush_window makes every pixel of the
\* viewport in the mapped region equal to the shadow buffer's pixel at the
\* same place, writes exactly win_w * win_h * 4 bytes, all of them in the
\* viewport, and leaves the rest of the mapped region and the shadow buffer
\* as they were.
C3_FlushCopiesViewport ==
    [][(ShadowMode /\ last'.op = "flush") =>
          /\ ViewportInside
          /\ ~last'.oob
          /\ last'.written = ViewportBytes
          /\ Cardinality(last'.written) = 4 * Val(fb_win_w) * Val(fb_win_h)
          /\ vram' = [i \in 1..Len(vram) |->
                        IF 4 * (i - 1) \in ViewportBytes
                        THEN heap[fb_buffer.id].data[i] ELSE vram[i]]
          /\ heap' = heap]_vars

\* C4: when the drawing buffer is the mapped region itself, as it is after
\* an acquire without TFB_FL_USE_SHADOW_BUFFER, tfb_flush_window copies
\* nothing, touches no memory and changes nothing of the session's state,
\* whatever the window.
C4_NoShadowFlushNoOp ==
    [][(fb_buffer = fb_real_buffer /\ last'.op = "flush") =>
          /\ last'.written = {}
          /\ ~last'.oob
          /\ ~last'.undef
          /\ last'.ret = "void"
          /\ UNCHANGED fbVars]_vars

\* a flush in a session acquired without a shadow buffer, the window being
\* one pixel
C4_Witness ==
    /\ last.op = "flush"
    /\ Acquired
    /\ fb_buffer = fb_real_buffer
    /\ fb_win_w = U(1)
    /\ fb_win_h = U(1)
    /\ last.written = {}
    /\ vram = DeviceContent(Len(vram))

(***************************************************************************)
(* Properties of the session's life, checked under SpecSession.            *)
(***************************************************************************)

\* the errors tfb_acquire_fb returns from a step after the device's open
ErrorsAfterOpen ==
    {"TFB_ERROR_IOCTL_FB", "TFB_UNSUPPORTED_VIDEO_MODE", "TFB_ASSUMPTION_FAILED",
     "TFB_ERROR_OPEN_TTY", "TFB_ERROR_TTY_GRAPHIC_MODE", "TFB_MMAP_FB_ERROR",
     "TFB_OUT_OF_MEMORY"}

\* C5: when tfb_acquire_fb is called with nothing held and returns an error
\* of a step after the device's open, nothing is held on return: every
\* descriptor is closed, the terminal is in text mode, nothing is mapped and
\* nothing is allocated.
C5_FailedAcquireHoldsNothing ==
    (last.op = "acquire" /\ ~last.held /\ last.ret \in ErrorsAfterOpen) =>
        NothingHeld

\* a shadow allocation that failed after the device, the terminal and the
\* mapping were there, all of them released by the teardown
C5_Witness ==
    /\ last.op = "acquire"
    /\ ~last.held
    /\ last.ret = "TFB_OUT_OF_MEMORY"
    /\ \E i \in 1..Len(last.sys) : last.sys[i] = <<"munmap", "ok">>
    /\ \E i \in 1..Len(last.sys) : last.sys[i] = <<"kd_text", "ok">>
    /\ \E i \in 1..Len(last.sys) : last.sys[i] = <<"close_tty", "ok">>
    /\ \E i \in 1..Len(last.sys) : last.sys[i] = <<"close_fb", "ok">>
    /\ NothingHeld

\* C6: tfb_release_fb is idempotent: after a successful acquire, the second
\* of two releases in a row leaves the state of the first and performs no
\* unmap, no free, no terminal mode change and no close.
C6_ReleaseIdempotent ==
    [][(/\ last.op = "release"
        /\ last.args = <<"acquire", "TFB_SUCCESS">>
        /\ last'.op = "release"
        /\ last'.args = <<"release", last.ret>>)
       => (last'.sys = <<>> /\ UNCHANGED fbVars)]_vars

(***************************************************************************)
(* Properties of the terminal mode, checked under SpecKb.  last.args holds *)
(* what the last call found: the raw-mode flag, the terminal's attributes  *)
(* and orig_termios.                                                       *)
(***************************************************************************)

\* C7: in any sequence of tfb_set_kb_raw_mode and tfb_restore_kb_mode calls,
\* tfb_set_kb_raw_mode returns TFB_KB_WRONG_MODE exactly when raw mode was
\* active when it was called, and tfb_restore_kb_mode exactly when raw mode
\* was not active.  Raw mode is active exactly after a successful enter that
\* no successful restore has followed, so an enter right after a successful
\* enter, and a restore with no successful enter before it, both return
\* TFB_KB_WRONG_MODE.
C7_WrongModeExactly ==
    /\ last.op = "set_kb_raw_mode" =>
          /\ (last.ret = "TFB_KB_WRONG_MODE") <=> last.args[1]
          /\ tfb_kb_raw_mode <=> (last.args[1] \/ last.ret = "TFB_SUCCESS")
    /\ last.op = "restore_kb_mode" =>
          /\ (last.ret = "TFB_KB_WRONG_MODE") <=> ~last.args[1]
          /\ tfb_kb_raw_mode <=> (last.args[1] /\ last.ret # "TFB_SUCCESS")
    /\ last = NoCall => ~tfb_kb_raw_mode

\* an enter refused in raw mode
C7_Witness ==
    /\ last.op = "set_kb_raw_mode"
    /\ last.args[1]
    /\ last.ret = "TFB_KB_WRONG_MODE"
    /\ tfb_kb_raw_mode

\* C8: whatever the terminal's attributes A were when tfb_set_kb_raw_mode
\* last succeeded, a tfb_restore_kb_mode that succeeds leaves the terminal's
\* attributes equal to A and raw mode inactive, whichever failed calls came
\* in between.
C8_RoundTrip ==
    (last.op = "restore_kb_mode" /\ last.ret = "TFB_SUCCESS") =>
        /\ term_attr = attr_at_enter
        /\ ~tfb_kb_raw_mode

\* a successful restore that found the terminal changed by the enter, and
\* put back the attributes which that enter had found
C8_Witness ==
    /\ last.op = "restore_kb_mode"
    /\ last.ret = "TFB_SUCCESS"
    /\ last.args[2] # attr_at_enter
    /\ term_attr = attr_at_enter
    /\ attr_at_enter = DefaultAttr

\* C18: a tfb_set_kb_raw_mode or tfb_restore_kb_mode call that does not
\* return TFB_SUCCESS leaves the raw-mode flag and the terminal's attributes
\* as they were; a call made while raw mode is active leaves orig_termios
\* as it was.  last.args holds the flag, the terminal's attributes and
\* orig_termios as the call found them.
C18_FailedCallChangesNothing ==
    last.op \in {"set_kb_raw_mode", "restore_kb_mode"} =>
        /\ last.ret # "TFB_SUCCESS" =>
              /\ tfb_kb_raw_mode = last.args[1]
              /\ term_attr = last.args[2]
        /\ last.args[1] => orig_termios = last.args[3]

\* an enter refused in raw mode, orig_termios still what the successful
\* enter saved and not what the terminal holds now
C18_Witness ==
    /\ last.op = "set_kb_raw_mode"
    /\ last.ret = "TFB_KB_WRONG_MODE"
    /\ last.args[1]
    /\ orig_termios = attr_at_enter
    /\ orig_termios = DefaultAttr
    /\ term_attr # orig_termios

(***************************************************************************)
(* Properties of the keypress decoder, checked under SpecKey.  reads holds *)
(* the result of every read() of the call in progress or, with pc at       *)
(* "idle", of the call that returned last; keyret is what that call        *)
(* returned.  The 8 bytes of a key code are listed least significant       *)
(* first, which is the order of buf in memory on a little-endian host.     *)
(***************************************************************************)

\* C9: tfb_read_keypress on a byte b other than 0x1B returns b zero-extended
\* to 64 bits and reads that byte only.
C9_ZeroExtended ==
    (pc = "idle" /\ Len(reads) = 1 /\ reads[1] \in Byte \ {ESC}) =>
        keyret = <<reads[1], 0, 0, 0, 0, 0, 0, 0>>

\* the bytes that do not end a sequence and the bytes that do
IsMiddle(b) == b \in Byte /\ (b = BRACKET \/ b < 64 \/ b > 126)

IsTerminator(b) == b \in Byte /\ 64 <= b /\ b <= 126 /\ b # BRACKET

\* ESC '[' and n bytes that do not end the sequence
IsCsiOpen(s) ==
    /\ Len(s) >= 2
    /\ s[1] = ESC
    /\ s[2] = BRACKET
    /\ \A i \in 3..Len(s) : IsMiddle(s[i])

\* ESC '[' m1..mk t
IsCsi(s) ==
    /\ Len(s) >= 3
    /\ IsCsiOpen(SubSeq(s, 1, Len(s) - 1))
    /\ IsTerminator(s[Len(s)])

Pack(s) == [i \in 1..8 |-> IF i <= Len(s) THEN s[i] ELSE 0]

\* C10: on input ESC '[' m1..mk t with 0 <= k <= 5, every mi either '[' or
\* outside 0x40..0x7E and t in 0x40..0x7E other than '[', tfb_read_keypress
\* reads exactly these k+3 bytes (it has not returned before t, and returns
\* on t) and returns the nonzero code whose i-th byte is the i-th byte read,
\* the rest zero; t may be the 8th byte.
C10_CsiPacked ==
    /\ (pc = "idle" /\ IsCsi(reads) /\ Len(reads) <= 8) =>
          /\ keyret = Pack(reads)
          /\ keyret # U64Zero
    /\ (IsCsiOpen(reads) /\ Len(reads) <= 7) => pc = "esc_loop"
    /\ (reads = <<ESC>>) => pc = "esc_first"

\* a sequence whose terminator is the 8th byte, with a '[' and a byte from
\* 0x80 up among the middle bytes
C10_Witness ==
    /\ pc = "idle"
    /\ IsCsi(reads)
    /\ Len(reads) = 8
    /\ BRACKET \in {reads[i] : i \in 3..7}
    /\ 128 \in {reads[i] : i \in 3..7}
    /\ keyret = Pack(reads)

\* C11: on ESC followed by a byte other than '[', tfb_read_keypress returns 0
\* having read exactly these two bytes; nothing of them is kept, so the next
\* call starts at the byte after them.
C11_EscNonBracket ==
    (Len(reads) = 2 /\ reads[1] = ESC /\ reads[2] \in Byte \ {BRACKET}) =>
        /\ pc = "idle"
        /\ keyret = U64Zero
        /\ esc_len = 0
        /\ esc_buf = U64Zero

\* ESC 'X'
C11_Witness ==
    /\ pc = "idle"
    /\ reads = <<ESC, 88>>
    /\ keyret = U64Zero

\* C16: on ESC '[' followed by six bytes none of which ends the sequence,
\* tfb_read_keypress returns 0 on the 8th byte and not before it; no call
\* makes more than 8 read() calls.
C16_TooLongIsZero ==
    /\ (IsCsiOpen(reads) /\ Len(reads) = 8) => (pc = "idle" /\ keyret = U64Zero)
    /\ (IsCsiOpen(reads) /\ Len(reads) < 8) => pc = "esc_loop"
    /\ Len(reads) <= 8
    /\ pc # "idle" => Len(reads) < 8

\* eight bytes read, the last one a '[' (in 0x40..0x7E, yet no final byte)
C16_Witness ==
    /\ pc = "idle"
    /\ Len(reads) = 8
    /\ IsCsiOpen(reads)
    /\ reads[8] = BRACKET
    /\ 63 \in {reads[i] : i \in 3..7}
    /\ keyret = U64Zero

\* C20: while read_esc_seq runs, len is between 1 and 8 and buf holds the
\* bytes read by this call and zeroes, the byte of the k-th read at index
\* k - 1, so every write is at an index in 0..7; nothing in buf or in the
\* result comes from an earlier call.
C20_BufferBounded ==
    /\ pc # "idle" =>
          /\ 1 <= esc_len /\ esc_len <= 7
          /\ esc_len = Len(reads)
          /\ esc_buf = Pack(reads)
    /\ pc = "esc_first" => esc_buf = <<ESC, 0, 0, 0, 0, 0, 0, 0>>
    /\ Len(reads) <= 8
    /\ (pc = "idle" /\ keyret # U64Zero /\ Len(reads) > 1) => keyret = Pack(reads)

\* seven bytes stored, the next write at index 7
C20_Witness ==
    /\ pc = "esc_loop"
    /\ esc_len = 7
    /\ esc_buf = Pack(reads)
    /\ reads[7] = 63

(***************************************************************************)
(* Properties of the function keys, checked under SpecFn.  After a call of *)
(* tfb_get_fn_key_num, last.args[1] is the code and last.ret the result.   *)
(***************************************************************************)

\* C12: tfb_get_fn_key_num returns i for the i-th entry of the table, for
\* every i in 1..12, and 0 for every code that is no entry; the 12 entries
\* are pairwise distinct.
C12_FnKeyNum ==
    /\ \A i \in 1..12, j \in 1..12 :
          tfb_fn_key_seq_char[i] = tfb_fn_key_seq_char[j] => i = j
    /\ last.op = "get_fn_key_num" =>
          /\ \A i \in 1..12 :
                last.args[1] = tfb_fn_key_seq_char[i] => last.ret = i
          /\ (\A i \in 1..12 : last.args[1] # tfb_fn_key_seq_char[i]) =>
                last.ret = 0

\* the 12th entry looked up
C12_Witness ==
    /\ last.op = "get_fn_key_num"
    /\ last.args[1] = <<27, 91, 50, 52, 126, 0, 0, 0>>
    /\ last.ret = 12

\* C17: for every i in 1..12, when the reads of one tfb_read_keypress call
\* result in the non-zero bytes of the i-th entry of the table, in order,
\* the call returns on the last of them and not before, and the code c it
\* returns is the entry, with tfb_get_fn_key_num(c) = i; in ESC '[' '['
\* letter the call does not return on the second '['.
C17_DecoderAgreesWithTable ==
    \A i \in 1..12 :
        /\ reads = FnPattern(i) =>
              /\ pc = "idle"
              /\ keyret = tfb_fn_key_sequences[i]
              /\ tfb_get_fn_key_num(keyret) = i
              /\ (last.op = "get_fn_key_num" /\ last.args = <<keyret>>) =>
                    last.ret = i
        /\ \A n \in 1..(Len(FnPattern(i)) - 1) :
              reads = SubSeq(FnPattern(i), 1, n) => pc # "idle"

\* F1, ESC '[' '[' 'A', read by one call and looked up
C17_Witness ==
    /\ pc = "idle"
    /\ reads = <<ESC, BRACKET, BRACKET, 65>>
    /\ last.op = "get_fn_key_num"
    /\ last.args = <<keyret>>
    /\ last.ret = 1

(***************************************************************************)
(* Further properties of the session's life, checked under SpecSession.    *)
(***************************************************************************)

\* the device reports a channel with msb_right set
MsbRight == dev.fmt.red # 0 \/ dev.fmt.green # 0 \/ dev.fmt.blue # 0

\* C13: when the device opens and answers both queries, tfb_acquire_fb
\* returns TFB_ASSUMPTION_FAILED on a 32-bit device reporting a channel with
\* msb_right set and TFB_UNSUPPORTED_VIDEO_MODE on a device of another
\* depth; and it does so before the terminal is opened or switched and
\* before memory is mapped or allocated: on such a device ttyfd,
\* __fb_real_buffer and __fb_buffer, which those steps assign, keep their
\* initial values for ever, and no terminal is open, nothing is mapped and
\* nothing is allocated.
C13_FormatRejectedFirst ==
    /\ (last.op = "acquire"
            /\ last.ret \notin {"TFB_ERROR_OPEN_FB", "TFB_ERROR_IOCTL_FB"}) =>
          /\ (dev.fmt.bits_per_pixel = 32 /\ MsbRight) =>
                last.ret = "TFB_ASSUMPTION_FAILED"
          /\ dev.fmt.bits_per_pixel # 32 =>
                last.ret = "TFB_UNSUPPORTED_VIDEO_MODE"
    /\ (dev.fmt.bits_per_pixel # 32 \/ MsbRight) =>
          /\ ttyfd = -1
          /\ fb_real_buffer = NULL
          /\ fb_buffer = NULL
          /\ kd_mode = "KD_TEXT"
          /\ \A f \in Fds : fds[f] # "tty"
          /\ \A k \in 1..MaxMaps : ~maps[k]
          /\ \A k \in 1..MaxAllocs : ~heap[k].live

\* an acquire refused for the green channel, the device closed again
C13_Witness ==
    /\ last.op = "acquire"
    /\ last.ret = "TFB_ASSUMPTION_FAILED"
    /\ dev.fmt.green # 0
    /\ last.sys = << <<"close_fb", "ok">> >>
    /\ NothingHeld

\* C15: in every sequence of acquire and release calls a resource is released
\* only while it is held: munmap only of the region mapped, free only of the
\* live shadow block (free(NULL), which releases nothing, apart), the
\* KD_TEXT ioctl and close only on the open terminal, close only on the open
\* device.
C15_ReleasedOnlyIfHeld ==
    \A i \in 1..Len(last.sys) :
        \/ last.sys[i][2] = "ok"
        \/ last.sys[i] = <<"free", "null">>

(***************************************************************************)
(* Further properties of the window and the flush, checked under SpecWin.  *)
(***************************************************************************)

C19_FlushWithinBuffers ==
    [][(ShadowMode /\ last'.op = "flush") =>
          /\ ~last'.oob
          /\ ~last'.undef
          /\ \A o \in last'.written : 0 <= o /\ o < Val(fb_size)]_vars


====
